---- MODULE Spec2Model ----
(***************************************************************************)
(* State-machine model of LinuxSystemMonitor (src/mqtt_linux_monitoring.py) *)
(* : the run() loop, the inventory scan update_disk_mapping, the discovery  *)
(* publish and the fast / slow / one_time / diskinfo batches.               *)
(*                                                                          *)
(* Strings that the code inspects character by character (device paths,    *)
(* the root mount source) are sequences of one-character strings.  Serials  *)
(* are opaque strings; Python's None is the value NoneVal.                  *)
(***************************************************************************)
EXTENDS Integers, Sequences, FiniteSets, TLC

\* ------------------------------------------------------------------ bounds

\* Loop iterations of run() that are followed.
MaxIterations == 2

\* Byte counts of the memory and filesystem readings range over 0..MaxReading.
MaxReading == 2

\* Partition numbers of the root filesystem range over 1..MaxPartition.
MaxPartition == 16

\* Values of FAST_INTERVAL range over 1..MaxFastInterval (seconds).
MaxFastInterval == 120

\* --------------------------------------------------------- program constants

\* FAST_INTERVAL default (seconds); iostat samples for this long.
FastInterval == 10
\* SLOW_INTERVAL default (seconds).
SlowInterval == 30
\* time.sleep(5) after a discovery publish.
SettleDelay == 5
\* run_command's default timeout (seconds).
ProbeTimeout == 30
\* range(0, 32) of the core detection.
CoreProbeLimit == 32
\* int(time.time()) when run() starts: the epoch clock, far above SlowInterval.
StartTime == 100

\* ------------------------------------------------------------------ strings

NoneVal == "None"

Dev == <<"/", "d", "e", "v", "/">>
sda == <<"s", "d", "a">>
sdb == <<"s", "d", "b">>
nvme0n1 == <<"n", "v", "m", "e", "0", "n", "1">>
vda == <<"v", "d", "a">>

\* Names a topology probe may report; vda is a disk the name pattern rejects.
DevNames == {sda, sdb, nvme0n1, vda}
\* Values of the SERIAL column: two real serials, or null (no serial reported).
SerialVals == {"S1", "S2", NoneVal}

Digits == {"0", "1", "2", "3", "4", "5", "6", "7", "8", "9"}

HasPrefix(s, p) == Len(s) >= Len(p) /\ SubSeq(s, 1, Len(p)) = p

\* f"/dev/{name}"
DiskPath(name) == Dev \o name

\* os.path.basename(path): what follows the last "/".
Basename(path) ==
    LET slashes == {i \in 1..Len(path) : path[i] = "/"}
        last == IF slashes = {} THEN 0 ELSE CHOOSE i \in slashes : \A j \in slashes : j <= i
    IN SubSeq(path, last + 1, Len(path))

\* re.match(r'^/dev/(sd|nvme|hd|mmc)', disk_path)
MatchesDiskPattern(path) ==
    \/ HasPrefix(path, Dev \o <<"s", "d">>)
    \/ HasPrefix(path, Dev \o <<"n", "v", "m", "e">>)
    \/ HasPrefix(path, Dev \o <<"h", "d">>)
    \/ HasPrefix(path, Dev \o <<"m", "m", "c">>)

\* re.match(r'^/dev/(nvme|mmc)', disk_path)
MatchesNvmeMmc(path) ==
    \/ HasPrefix(path, Dev \o <<"n", "v", "m", "e">>)
    \/ HasPrefix(path, Dev \o <<"m", "m", "c">>)

\* re.sub(r'(p\d+|\d+)$', '', s): the leftmost position from which the rest of
\* the string is 'p' followed by digits, or digits only, is where the cut is made.
AllDigitsFrom(s, i) == i <= Len(s) /\ \A k \in i..Len(s) : s[k] \in Digits
SuffixMatchAt(s, i) ==
    \/ s[i] = "p" /\ AllDigitsFrom(s, i + 1)
    \/ AllDigitsFrom(s, i)
StripPartitionSuffix(s) ==
    LET hits == {i \in 1..Len(s) : SuffixMatchAt(s, i)}
    IN IF hits = {} THEN s
       ELSE SubSeq(s, 1, (CHOOSE i \in hits : \A j \in hits : i <= j) - 1)

\* Outputs of findmnt -n -o SOURCE /: the second partition of sda, or "" when
\* the probe fails.
RootSources == {Dev \o sda \o <<"2">>, <<>>}

\* ------------------------------------------------------------------- dicts

EmptyMap == [x \in {} |-> x]

\* d[k] = v on a dict.
DictSet(d, k, v) == [x \in DOMAIN d \cup {k} |-> IF x = k THEN v ELSE d[x]]

\* d.get(k, default)
DictGet(d, k, default) == IF k \in DOMAIN d THEN d[k] ELSE default

Range(f) == {f[x] : x \in DOMAIN f}

\* ----------------------------------------------------- topology probe output

\* One entry of "blockdevices": the NAME and SERIAL columns.
\* exists is os.path.exists(disk_path) at the time of the scan.
DeviceEntries == [name : DevNames, serial : SerialVals, exists : BOOLEAN]

Entry(n, s) == [name |-> n, serial |-> s, exists |-> TRUE]

\* The parsed lsblk -d reports the model draws from.
BlockDeviceLists ==
    { <<>>,                                      \* "blockdevices": []
      <<Entry(sda, "S1")>>,                      \* one disk
      <<Entry(sdb, "S1")>>,                      \* the same disk, renumbered
      <<Entry(sda, "S2")>>,                      \* another disk at the same path
      <<Entry(sda, "S1"), Entry(nvme0n1, "S2")>>,   \* two disks
      <<Entry(sda, "S1"), Entry(sdb, "S1")>>,    \* two disks reporting one serial
      <<Entry(sda, NoneVal)>>,                   \* a disk with "serial": null
      <<Entry(sda, "S1"), Entry(sdb, NoneVal)>>, \* the same beside a known disk
      <<Entry(vda, "S1")>>,                      \* a name the pattern rejects
      <<[name |-> sda, serial |-> "S1", exists |-> FALSE]>> }  \* path gone

\* What lsblk -d prints: nothing (timeout, non-zero exit), text that is not
\* JSON, or a report.
ScanOutputs ==
    {[kind |-> "empty", devs |-> <<>>], [kind |-> "malformed", devs |-> <<>>]}
    \cup {[kind |-> "json", devs |-> ds] : ds \in BlockDeviceLists}

\* ------------------------------------------------------------ configuration

\* NETWORK_INTERFACES default.
eth0 == <<"e", "t", "h", "0">>
\* A bridge and a VLAN interface, as NETWORK_INTERFACES may name them.
br_lan == <<"b", "r", "-", "l", "a", "n">>
eth0_100 == eth0 \o <<".", "1", "0", "0">>
\* Commands the program starts with subprocess.run.
Tools == {"findmnt", "lsblk", "smartctl", "sensors", "iostat", "hdparm"}

\* Numbers of CPU cores that expose cpufreq/scaling_cur_freq on the host.
CoreChoices == {2, CoreProbeLimit}

\* self.cpu_core_count = None
NoCount == -1

\* ------------------------------------------------------------------- state

VARIABLES
    pc,                   \* position in run()
    dry_run,              \* self.dry_run
    ncores,               \* host: cores with a cpufreq file
    root_block,           \* self.root_block
    root_disk,            \* self.root_disk
    disk_serial_mapping,  \* self.disk_serial_mapping: serial -> device path
    disk_path_mapping,    \* self.disk_path_mapping: device path -> serial
    dpm_defined,          \* whether the attribute disk_path_mapping exists yet
    block_to_serial,      \* self.block_to_serial: partition path -> serial
    cpu_core_count,       \* self.cpu_core_count
    fast_payload,         \* self.fast_payload: the keys it holds
    slow_payload,         \* self.slow_payload: the keys it holds
    now,                  \* wall clock, seconds
    current_time,         \* run()'s current_time
    last_slow_update,     \* self.last_slow_update
    discovery_doc,        \* the most recent discovery document sent
    log,                  \* publishes and delays since the current iteration began
    registered_before,    \* a discovery publish and its delay precede the log
    fresh,                \* fast_payload keys written by the current iteration
    iterations,           \* loop iterations begun
    failed_probes,        \* probes that failed in the latest fast cycle
    last_scan,            \* what the latest update_disk_mapping call saw
    ifs_name,                 \* self.ifs_name (NETWORK_INTERFACES)
    ignore_sensors,           \* self.ignore_sensors (IGNORE_SENSORS)
    ignore_disks_for_smart,   \* self.ignore_disks_for_smart
    ignore_disks_for_temp,    \* self.ignore_disks_for_temp
    ignore_disks_for_status,  \* self.ignore_disks_for_status
    ignore_disks_for_usage,   \* self.ignore_disks_for_usage
    ignore_disks_for_info,    \* self.ignore_disks_for_info
    absent,               \* host: commands that are not installed
    flaky,                \* host: the broker may refuse a publish
    usb_paths,            \* host: device paths behind a USB bridge smartctl does not know
    disk_bridge_type,     \* self.disk_bridge_type: device path -> bridge mode
    bridge_owner,         \* device path -> serial of the disk its mode was learnt on
    one_time_payload,     \* self.one_time_payload: the keys it holds
    disk_info_payload,    \* the disk_info_payload of the latest publish_disk_info
    publishes,            \* every <<topic, retain>> handed to mqtt_publish so far
    publish_failed,       \* topics whose publish failed in the latest step
    smart_log,            \* smartctl invocations of the latest step
    uncaught,             \* the exception that ended run(), if any
    sample,               \* readings handed to the percentage and rate computations
    computed              \* the latest result of such a computation

vars == <<pc, dry_run, ncores, root_block, root_disk, disk_serial_mapping,
          disk_path_mapping, dpm_defined, block_to_serial, cpu_core_count,
          fast_payload, slow_payload, now, current_time, last_slow_update,
          discovery_doc, log, registered_before, fresh, iterations, failed_probes, last_scan,
          ifs_name, ignore_sensors, ignore_disks_for_smart, ignore_disks_for_temp,
          ignore_disks_for_status, ignore_disks_for_usage, ignore_disks_for_info,
          absent, flaky, usb_paths, disk_bridge_type, bridge_owner, one_time_payload,
          disk_info_payload, publishes, publish_failed, smart_log,
          uncaught, sample, computed>>

\* The configuration read in __init__, and the host the program runs on.
config == <<ifs_name, ignore_sensors, ignore_disks_for_smart, ignore_disks_for_temp,
            ignore_disks_for_status, ignore_disks_for_usage, ignore_disks_for_info>>
hostenv == <<absent, flaky, usb_paths>>
\* The readings and result of the arithmetic helpers.
calc == <<sample, computed>>
\* Everything but those.
monitor == <<pc, dry_run, ncores, root_block, root_disk, disk_serial_mapping,
             disk_path_mapping, dpm_defined, block_to_serial, cpu_core_count,
             fast_payload, slow_payload, now, current_time, last_slow_update,
             discovery_doc, log, registered_before, fresh, iterations, failed_probes,
             last_scan, config, hostenv, disk_bridge_type, bridge_owner,
             one_time_payload,
             disk_info_payload, publishes, publish_failed, smart_log, uncaught>>

NoScan == [result |-> "none", old |-> {}, new |-> EmptyMap, at |-> 0, listed |-> FALSE]

\* No exception has left run().
NoException == [exc |-> "none", at |-> "none"]

\* The arithmetic helpers have not been applied.
NoSample ==
    [total |-> 0, used |-> 0, free |-> 0, rx_bytes |-> 0, tx_bytes |-> 0,
     probe |-> "none", report |-> <<>>, zone |-> {},
     source |-> <<>>, disk |-> <<>>, parts |-> 0, mountpoint |-> "none",
     fast_interval |-> 0, outcome |-> "none", stdout |-> "", stderr |-> "",
     smart |-> [exit_status |-> 0, messages |-> <<>>, passed |-> {}, temperature |-> {}]]
NotComputed ==
    [fn |-> "none", raised |-> FALSE, value |-> 0,
     rx_delta |-> 0, tx_delta |-> 0, rx_speed |-> 0, tx_speed |-> 0,
     sensor |-> "none", text |-> <<>>, attrs |-> {}, cores |-> <<>>,
     data |-> [total |-> 0, used |-> 0, free |-> 0], mount_point |-> "none",
     timeout |-> 0, output |-> "none", keys |-> {}, smart_passed |-> 0]

\* The monitor after __init__, before run().
Constructed ==
    /\ pc = "start"
    /\ root_block = <<>>
    /\ root_disk = <<>>
    /\ disk_serial_mapping = EmptyMap
    /\ disk_path_mapping = EmptyMap
    /\ dpm_defined = FALSE
    /\ block_to_serial = EmptyMap
    /\ cpu_core_count = NoCount
    /\ fast_payload = {}
    /\ slow_payload = {}
    /\ now = StartTime
    /\ current_time = 0
    /\ last_slow_update = 0
    /\ discovery_doc = [published |-> FALSE, cmps |-> {}]
    /\ log = <<>>
    /\ registered_before = FALSE
    /\ fresh = {}
    /\ iterations = 0
    /\ failed_probes = {}
    /\ last_scan = NoScan
    /\ disk_bridge_type = EmptyMap
    /\ bridge_owner = EmptyMap
    /\ one_time_payload = {}
    /\ disk_info_payload = {}
    /\ publishes = {}
    /\ publish_failed = {}
    /\ smart_log = {}
    /\ uncaught = NoException
    /\ sample = NoSample
    /\ computed = NotComputed

\* The default configuration: the interface eth0, every ignore list empty.
DefaultConfig ==
    /\ ifs_name = <<eth0>>
    /\ ignore_sensors = {}
    /\ ignore_disks_for_smart = {}
    /\ ignore_disks_for_temp = {}
    /\ ignore_disks_for_status = {}
    /\ ignore_disks_for_usage = {}
    /\ ignore_disks_for_info = {}

\* Sets of commands that may be missing from the host.
AbsentChoices ==
    {{}, {"findmnt"}, {"lsblk"}, {"smartctl"}, {"sensors"}, {"iostat"},
     {"hdparm"}, {"iostat", "hdparm"}}

\* A host with a reachable broker and no USB bridge, the default configuration.
Init ==
    /\ Constructed
    /\ dry_run \in BOOLEAN
    /\ ncores \in CoreChoices
    /\ DefaultConfig
    /\ absent \in AbsentChoices
    /\ flaky = FALSE
    /\ usb_paths = {}

\* What mqtt_publish is called with and what became of it.
transport == <<publishes, publish_failed>>

\* A step that does not call mqtt_publish.
NothingPublished == publish_failed' = {} /\ UNCHANGED publishes

\* ------------------------------------------------------- external commands

\* What subprocess.run does with a command: it exits 0, exits non-zero, runs
\* into the timeout (TimeoutExpired), or the executable is not found
\* (FileNotFoundError, an OSError).
CommandOutcomes == {"exit0", "nonzero", "timeout", "not_found"}

\* run_command: stdout on exit 0, nothing on a non-zero exit; the except
\* clause turns TimeoutExpired and SubprocessError into nothing, and lets
\* every other exception through.
run_command(outcome, stdout, nothing) ==
    IF outcome = "exit0" THEN [raised |-> "none", value |-> stdout]
    ELSE IF outcome \in {"nonzero", "timeout"} THEN [raised |-> "none", value |-> nothing]
    ELSE [raised |-> "FileNotFoundError", value |-> nothing]

\* run_command_accept_error: stdout if there is any, else stderr, whatever the
\* exit status; the same except clause.
run_command_accept_error(outcome, stdout, stderr, nothing) ==
    IF outcome \in {"exit0", "nonzero"}
        THEN [raised |-> "none",
              value |-> IF stdout # nothing THEN stdout
                        ELSE IF stderr # nothing THEN stderr ELSE nothing]
    ELSE IF outcome = "timeout" THEN [raised |-> "none", value |-> nothing]
    ELSE [raised |-> "FileNotFoundError", value |-> nothing]

\* How subprocess.run fares with a command of the tool that otherwise exits
\* as in otherwise.
Started(tool, otherwise) == IF tool \in absent THEN "not_found" ELSE otherwise

\* ---------------------------------------------------------------- transport

\* mqtt_publish with the broker accepting the message (ok) or not: a dry run
\* prints and returns; otherwise publish.single is called inside try/except
\* Exception, which logs the failure and returns.
mqtt_publish_raising(ok) ==
    IF dry_run THEN "printed" ELSE IF ok THEN "sent" ELSE "raised"
mqtt_publish(ok) ==
    IF dry_run THEN "printed" ELSE IF ok THEN "sent" ELSE "dropped"

\* The retain argument of the mqtt_publish call for each topic: True is
\* passed for the discovery document, the one_time and the diskinfo batch;
\* the slow and fast calls leave it at its default, False.
RetainNever(topic) == FALSE
Retain(topic) == topic \in {"discovery", "one_time", "diskinfo"}

\* The mqtt_publish calls for the topics.
Calls(topics) == {<<t, Retain(t)>> : t \in topics}

\* Sets of topics the broker may refuse in one step that publishes to topics.
Refusals(topics) == IF flaky THEN SUBSET topics ELSE {{}}

\* Some mqtt_publish call to topics raised, with refused the refused ones.
PublishRaised(topics, refused) ==
    \E t \in topics : mqtt_publish(t \notin refused) = "raised"

\* The record of a step that called mqtt_publish(topic, payload, retain) for
\* each <<topic, retain>> in calls, the broker refusing the topics in refused.
Published(calls, refused) ==
    /\ publishes' = publishes \cup calls
    /\ publish_failed' = {c[1] : c \in {d \in calls : mqtt_publish(d[1] \notin refused) = "dropped"}}

\* ------------------------------------------------------------ run(): start

\* run() up to the first update_disk_mapping call: findmnt and the suffix strip.
ResolveRoot ==
    /\ pc = "start"
    /\ \E src \in RootSources :
        LET out == run_command(Started("findmnt", IF src = <<>> THEN "nonzero" ELSE "exit0"),
                               src, <<>>)
        IN IF out.raised # "none"
              THEN /\ pc' = "crashed"
                   /\ uncaught' = [exc |-> out.raised, at |-> "run_command"]
                   /\ UNCHANGED <<root_block, root_disk>>
              ELSE /\ root_block' = out.value
                   /\ root_disk' = StripPartitionSuffix(out.value)
                   /\ pc' = "initial_scan"
                   /\ UNCHANGED uncaught
    /\ UNCHANGED <<dry_run, ncores, disk_serial_mapping, disk_path_mapping,
                   dpm_defined, block_to_serial, cpu_core_count, fast_payload,
                   slow_payload, now, current_time, last_slow_update,
                   discovery_doc, log, registered_before, fresh, iterations, failed_probes, last_scan>>
    /\ NothingPublished
    /\ UNCHANGED <<config, hostenv, calc, disk_bridge_type, bridge_owner, one_time_payload,
                   disk_info_payload>>
    /\ smart_log' = {}

\* ----------------------------------------------------------- discovery

\* get_hardware_info's detection loop from core i on, with n cores present.
RECURSIVE ProbeCores(_, _)
ProbeCores(i, n) ==
    IF i >= CoreProbeLimit THEN NoCount
    ELSE IF ~(i < n) \/ i = CoreProbeLimit THEN i
    ELSE ProbeCores(i + 1, n)

\* self.cpu_core_count after get_hardware_info.
get_hardware_info(count, n) == IF count = NoCount THEN ProbeCores(0, n) ELSE count

\* One discovery component: its id, the batch topic and the batch key its
\* value_template reads.
Cmp(id, tgt, topic, key) == [id |-> <<id, tgt>>, topic |-> topic, key |-> key]

HostCmps ==
    (IF "monitoring" \notin ignore_sensors
        THEN {Cmp("monitoring", "", "fast", <<"script", "">>)} ELSE {})
    \cup (IF "last_boot" \notin ignore_sensors
        THEN {Cmp("last_boot", "", "one_time", <<"uptime", "">>)} ELSE {})
    \cup (IF "cpu_usage" \notin ignore_sensors
        THEN {Cmp("cpu_usage", "", "fast", <<"cpu_avg", "">>)} ELSE {})
    \cup (IF "cpu_freq" \notin ignore_sensors
        THEN {Cmp("cpu_freq", "", "fast", <<"cpu_freq", "">>)} ELSE {})
    \cup (IF "cpu_temp" \notin ignore_sensors
        THEN {Cmp("cpu_temp", "", "fast", <<"cpu_temp", "">>)} ELSE {})
    \cup (IF "mem_usage" \notin ignore_sensors /\ "ram_usage" \notin ignore_sensors
        THEN {Cmp("memory_usage", "", "fast", <<"mem_usage", "">>)} ELSE {})
    \cup (IF "mem_usage" \notin ignore_sensors /\ "swap_usage" \notin ignore_sensors
        THEN {Cmp("swap_usage", "", "fast", <<"mem_usage", "">>)} ELSE {})

DiskCmps(serial) ==
    (IF serial \notin ignore_disks_for_smart /\ "disk_smart" \notin ignore_sensors
        THEN {Cmp("disk_smart", serial, "slow", <<"disk_smart", serial>>),
              Cmp("disk_temp", serial, "slow", <<"disk_smart", serial>>)} ELSE {})
    \cup (IF serial \notin ignore_disks_for_smart /\ "disk_info" \notin ignore_sensors
        THEN {Cmp("disk_info", serial, "diskinfo", <<"diskinfo", serial>>)} ELSE {})
    \cup (IF "disk_load" \notin ignore_sensors
        THEN {Cmp("disk_write", serial, "fast", <<"disk_io", serial>>),
              Cmp("disk_read", serial, "fast", <<"disk_io", serial>>),
              Cmp("disk_util", serial, "fast", <<"disk_io", serial>>)} ELSE {})
    \cup (IF "disk_usage" \notin ignore_sensors
        THEN {Cmp("disk_usage", serial, "fast", <<"disk_usage", serial>>)} ELSE {})
    \cup (IF "disk_status" \notin ignore_sensors
        THEN {Cmp("disk_status", serial, "fast", <<"disk_status", serial>>)} ELSE {})

\* if_name.replace('-', '_').replace(' ', '_').replace('@', '_')
SafeIfnameDiscovery(ifname) ==
    [i \in DOMAIN ifname |-> IF ifname[i] \in {"-", " ", "@"} THEN "_" ELSE ifname[i]]

NetCmps(ifname) ==
    LET key == <<"net_stats", SafeIfnameDiscovery(ifname)>>
    IN (IF "net_rx" \notin ignore_sensors
            THEN {Cmp("net_rx", ifname, "fast", key)} ELSE {})
       \cup (IF "net_tx" \notin ignore_sensors
            THEN {Cmp("net_tx", ifname, "fast", key)} ELSE {})
       \cup (IF "net_link_speed" \notin ignore_sensors
            THEN {Cmp("net_link_speed", ifname, "fast", key)} ELSE {})
       \cup (IF "net_duplex" \notin ignore_sensors
            THEN {Cmp("net_duplex", ifname, "fast", key)} ELSE {})

\* A discovery builder that adds to the previous document instead of starting
\* from an empty "cmps".
setup_discovery_keeping(mapping) ==
    discovery_doc.cmps
    \cup HostCmps
    \cup UNION {DiskCmps(serial) : serial \in DOMAIN mapping}

\* dev_discovery["cmps"] as setup_discovery builds it for an inventory.
setup_discovery(mapping) ==
    HostCmps
    \cup UNION {DiskCmps(serial) : serial \in DOMAIN mapping}
    \cup (IF "net_stats" \notin ignore_sensors
            THEN UNION {NetCmps(ifs_name[i]) : i \in DOMAIN ifs_name} ELSE {})

\* ------------------------------------------------- update_disk_mapping

\* The loop over data["blockdevices"]: a device whose path exists and matches
\* the disk pattern is entered under its serial (a later entry with the same
\* serial overwrites an earlier one).
Accepted(d) == d.exists /\ MatchesDiskPattern(DiskPath(d.name))

RECURSIVE NewMapping(_)
NewMapping(devs) ==
    IF devs = <<>> THEN EmptyMap
    ELSE LET n == Len(devs)
             rest == NewMapping(SubSeq(devs, 1, n - 1))
         IN IF Accepted(devs[n])
               THEN DictSet(rest, devs[n].serial, DiskPath(devs[n].name))
               ELSE rest

\* self.disk_path_mapping as the same loop fills it.
NewPathMapping(devs) ==
    LET acc == {i \in DOMAIN devs : Accepted(devs[i])}
    IN [p \in {DiskPath(devs[i].name) : i \in acc} |->
            devs[CHOOSE i \in acc : DiskPath(devs[i].name) = p].serial]

\* The primary-partition path of a device path.
BlockPath(disk_path) ==
    IF disk_path = root_disk THEN root_block
    ELSE IF MatchesNvmeMmc(disk_path) THEN disk_path \o <<"p", "1">>
    ELSE disk_path \o <<"1">>

\* self.block_to_serial as the loop over the new inventory fills it.
NewBlockToSerial(mapping) ==
    [b \in {BlockPath(mapping[s]) : s \in DOMAIN mapping} |->
        CHOOSE s \in DOMAIN mapping : BlockPath(mapping[s]) = b]

\* if added_serials or removed_serials:
InventoryChangedAlways(added, removed) == TRUE
InventoryChanged(added, removed) == added # {} \/ removed # {}

\* What a changed scan emits: the discovery publish, the delay unless this is
\* a dry run, the disk-info publish.
ChangedScanEvents ==
    <<"discovery">> \o (IF dry_run THEN <<>> ELSE <<"settle">>) \o <<"diskinfo">>

\* get_disk_info(disk_path) as far as the bridge cache goes: the mode of the
\* first smartctl call, and the retry with -d sat that follows the
\* "Unknown USB bridge" diagnostic (sat_ok: that retry exits 0).
get_disk_info(disk_path, sat_ok) ==
    LET mode == DictGet(disk_bridge_type, disk_path, "")
    IN [fn |-> "info", path |-> disk_path, mode |-> mode,
        retry |-> IF mode = "" /\ disk_path \in usb_paths
                     THEN (IF sat_ok THEN "ok" ELSE "failed") ELSE "none"]

\* A health probe that does not look at the cache.
get_disk_smart_direct(disk_path) ==
    [fn |-> "smart", path |-> disk_path, mode |-> "", retry |-> "none"]

\* get_disk_smart(disk_path): one smartctl call, with the cached mode if any.
get_disk_smart(disk_path) ==
    [fn |-> "smart", path |-> disk_path,
     mode |-> DictGet(disk_bridge_type, disk_path, ""), retry |-> "none"]

\* self.disk_bridge_type after the probes in probes.
CacheAfter(probes) ==
    LET learnt == {q.path : q \in {r \in probes : r.retry = "ok"}}
    IN [x \in DOMAIN disk_bridge_type \cup learnt |->
            IF x \in learnt THEN "sat" ELSE disk_bridge_type[x]]

\* The disks on which the cached modes were learnt, after the probes in
\* probes of the inventory mapping.
OwnersAfter(probes, mapping) ==
    LET learnt == {q.path : q \in {r \in probes : r.retry = "ok"}}
    IN [x \in DOMAIN bridge_owner \cup learnt |->
            IF x \in learnt THEN CHOOSE serial \in DOMAIN mapping : mapping[serial] = x
            ELSE bridge_owner[x]]

\* publish_disk_info() called before the inventory is replaced: it probes
\* the devices of the old inventory.
publish_disk_info_early(mapping, sat_ok) ==
    {get_disk_info(disk_serial_mapping[x], sat_ok) : x \in DOMAIN disk_serial_mapping}

\* publish_disk_info(): get_disk_info on the path of every device of the
\* inventory, which is mapping by then.
publish_disk_info(mapping, sat_ok) ==
    {get_disk_info(mapping[x], sat_ok) : x \in DOMAIN mapping}

\* update_disk_mapping() on the probe outcome out, continuing at next.
update_disk_mapping(out, next) ==
    LET lsblk == run_command(Started("lsblk", IF out.kind = "empty" THEN "nonzero" ELSE "exit0"),
                             out.kind, "empty")
        new_mapping == NewMapping(out.devs)
        old_serials == DOMAIN disk_serial_mapping
        new_serials == DOMAIN new_mapping
        added_serials == new_serials \ old_serials
        removed_serials == old_serials \ new_serials
        seen(r) == [result |-> r, old |-> old_serials,
                    new |-> IF out.kind = "json" THEN new_mapping ELSE EmptyMap,
                    at |-> now, listed |-> (out.kind = "json" /\ out.devs # <<>>)]
        quiet == /\ pc' = next
                 /\ NothingPublished
                 /\ UNCHANGED <<disk_bridge_type, bridge_owner, disk_info_payload,
                                uncaught>>
                 /\ smart_log' = {}
    IN
    /\ UNCHANGED <<dry_run, ncores, root_block, root_disk, fast_payload,
                   slow_payload, current_time, last_slow_update,
                   registered_before, fresh, iterations, failed_probes>>
    /\ UNCHANGED <<config, hostenv, calc, one_time_payload>>
    /\ IF lsblk.raised # "none" THEN
            \* subprocess.run raises before the try block is entered
            /\ pc' = "crashed"
            /\ uncaught' = [exc |-> lsblk.raised, at |-> "run_command"]
            /\ NothingPublished
            /\ UNCHANGED <<disk_serial_mapping, disk_path_mapping, dpm_defined,
                           block_to_serial, cpu_core_count, now, discovery_doc,
                           log, last_scan, disk_bridge_type, bridge_owner,
                           disk_info_payload>>
            /\ smart_log' = {}
       ELSE IF lsblk.value = "empty" THEN
            \* if not output: return
            /\ last_scan' = seen("no_output")
            /\ log' = Append(log, "scan")
            /\ quiet
            /\ UNCHANGED <<disk_serial_mapping, disk_path_mapping, dpm_defined,
                           block_to_serial, cpu_core_count, now, discovery_doc>>
       ELSE IF lsblk.value = "malformed" THEN
            \* json.loads raises; block_to_serial was already reset
            /\ last_scan' = seen("parse_error")
            /\ log' = Append(log, "scan")
            /\ block_to_serial' = EmptyMap
            /\ quiet
            /\ UNCHANGED <<disk_serial_mapping, disk_path_mapping, dpm_defined,
                           cpu_core_count, now, discovery_doc>>
       ELSE IF NoneVal \in added_serials THEN
            \* ', '.join(added_serials) raises TypeError on a null serial;
            \* the except clause returns
            /\ last_scan' = seen("type_error")
            /\ log' = Append(log, "scan")
            /\ block_to_serial' = EmptyMap
            /\ disk_path_mapping' = NewPathMapping(out.devs)
            /\ dpm_defined' = TRUE
            /\ quiet
            /\ UNCHANGED <<disk_serial_mapping, cpu_core_count, now, discovery_doc>>
       ELSE IF InventoryChanged(added_serials, removed_serials) THEN
            /\ last_scan' = seen("changed")
            /\ disk_serial_mapping' = new_mapping
            /\ disk_path_mapping' = NewPathMapping(out.devs)
            /\ dpm_defined' = TRUE
            /\ block_to_serial' = NewBlockToSerial(new_mapping)
            /\ cpu_core_count' = get_hardware_info(cpu_core_count, ncores)
            /\ discovery_doc' = [published |-> TRUE, cmps |-> setup_discovery(new_mapping)]
            /\ now' = now + (IF dry_run THEN 0 ELSE SettleDelay)
            /\ IF new_mapping # EmptyMap /\ "smartctl" \in absent THEN
                    \* publish_disk_info: subprocess.run raises in get_disk_info,
                    \* and the except clause does not name that exception
                    /\ \E refused \in Refusals({"discovery"}) :
                            Published(Calls({"discovery"}), refused)
                    /\ log' = Append(log, "scan") \o SubSeq(ChangedScanEvents, 1, Len(ChangedScanEvents) - 1)
                    /\ pc' = "crashed"
                    /\ uncaught' =
                         [exc |-> run_command_accept_error("not_found", "", "", "").raised,
                          at |-> "run_command_accept_error"]
                    /\ smart_log' = {}
                    /\ UNCHANGED <<disk_bridge_type, bridge_owner, disk_info_payload>>
               ELSE \E sat_ok \in (IF Range(new_mapping) \cap usb_paths = {} THEN {TRUE} ELSE BOOLEAN),
                       refused \in Refusals({"discovery", "diskinfo"}) :
                    LET probes == publish_disk_info(new_mapping, sat_ok)
                    IN /\ smart_log' = probes
                       /\ disk_bridge_type' = CacheAfter(probes)
                       /\ bridge_owner' = OwnersAfter(probes, new_mapping)
                       /\ disk_info_payload' = {<<"diskinfo", x>> : x \in DOMAIN new_mapping}
                       /\ Published(Calls({"discovery", "diskinfo"}), refused)
                       /\ log' = Append(log, "scan") \o ChangedScanEvents
                       /\ IF PublishRaised({"discovery", "diskinfo"}, refused)
                             THEN /\ pc' = "crashed"
                                  /\ uncaught' = [exc |-> "Exception", at |-> "mqtt_publish"]
                             ELSE /\ pc' = next
                                  /\ UNCHANGED uncaught
       ELSE
            /\ last_scan' = seen("unchanged")
            /\ log' = Append(log, "scan")
            /\ block_to_serial' = EmptyMap
            /\ disk_path_mapping' = NewPathMapping(out.devs)
            /\ dpm_defined' = TRUE
            /\ quiet
            /\ UNCHANGED <<disk_serial_mapping, cpu_core_count, now, discovery_doc>>

\* run(): the update_disk_mapping call before the loop.
InitialScan ==
    /\ pc = "initial_scan"
    /\ \E out \in ScanOutputs : update_disk_mapping(out, "check_dependencies")

\* run(): the update_disk_mapping call that ends an iteration.
RefreshInventory ==
    /\ pc = "refresh"
    /\ \E out \in ScanOutputs : update_disk_mapping(out, "loop")

\* ------------------------------------------------ run(): before the loop

RequiredCommandsLax == {"smartctl", "sensors"}
RequiredCommands ==
    {"smartctl", "sensors", "iostat", "hdparm"}
        \ (IF "disk_smart" \in ignore_sensors THEN {"smartctl"} ELSE {})

\* check_dependencies(): missing_deps, one entry per required command that
\* `which` does not find.
missing_deps == absent \cap RequiredCommands

\* run(): sys.exit(1) when check_dependencies() returns False.
CheckDependencies ==
    /\ pc = "check_dependencies"
    /\ pc' = IF missing_deps # {} THEN "exited" ELSE "onetime"
    /\ NothingPublished
    /\ UNCHANGED <<config, hostenv, calc, disk_bridge_type, bridge_owner, one_time_payload,
                   disk_info_payload, uncaught>>
    /\ smart_log' = {}
    /\ UNCHANGED <<dry_run, ncores, root_block, root_disk, disk_serial_mapping,
                   disk_path_mapping, dpm_defined, block_to_serial, cpu_core_count,
                   fast_payload, slow_payload, now, current_time, last_slow_update,
                   discovery_doc, log, registered_before, fresh, iterations, failed_probes, last_scan>>

\* publish_onetime_sensors()
PublishOnetime ==
    /\ pc = "onetime"
    /\ log' = Append(log, "one_time")
    /\ one_time_payload' = one_time_payload
            \cup (IF "last_boot" \notin ignore_sensors THEN {<<"uptime", "">>} ELSE {})
    /\ \E refused \in Refusals({"one_time"}) :
        /\ Published(Calls({"one_time"}), refused)
        /\ IF PublishRaised({"one_time"}, refused)
              THEN /\ pc' = "crashed"
                   /\ uncaught' = [exc |-> "Exception", at |-> "mqtt_publish"]
              ELSE /\ pc' = "loop"
                   /\ UNCHANGED uncaught
    /\ smart_log' = {}
    /\ UNCHANGED <<config, hostenv, calc, disk_bridge_type, bridge_owner, disk_info_payload>>
    /\ UNCHANGED <<dry_run, ncores, root_block, root_disk, disk_serial_mapping,
                   disk_path_mapping, dpm_defined, block_to_serial, cpu_core_count,
                   fast_payload, slow_payload, now, current_time, last_slow_update,
                   discovery_doc, registered_before, fresh, iterations, failed_probes, last_scan>>

\* ------------------------------------------------------- run(): the loop

\* A discovery publish followed by the settling delay is in the log.
DiscoverySettled(l) ==
    \E i, j \in DOMAIN l : i < j /\ l[i] = "discovery" /\ l[j] = "settle"

\* Keys publish_slow_sensors writes: one SMART sample per inventory serial.
SlowKeys ==
    {<<"disk_smart", serial>> : serial \in
        {x \in DOMAIN disk_serial_mapping :
            x \notin ignore_disks_for_smart /\ "disk_smart" \notin ignore_sensors}}

\* if current_time - self.last_slow_update >= self.slow_interval:
SlowDueStrict(cur, last) == cur - last > SlowInterval
SlowDue(cur, last) == cur - last >= SlowInterval

\* The head of one loop iteration: the script entry, current_time, and the
\* slow branch with publish_slow_sensors().
IterationStart ==
    /\ pc = "loop"
    /\ iterations < MaxIterations
    /\ iterations' = iterations + 1
    /\ current_time' = now
    /\ fast_payload' = fast_payload \cup {<<"script", "">>}
    /\ fresh' = {<<"script", "">>}
    /\ registered_before' = (registered_before \/ DiscoverySettled(log))
    /\ UNCHANGED <<config, hostenv, calc, disk_bridge_type, bridge_owner, one_time_payload, disk_info_payload>>
    /\ IF ~SlowDue(current_time', last_slow_update)
          THEN /\ log' = <<>>
               /\ pc' = "fast"
               /\ NothingPublished
               /\ smart_log' = {}
               /\ UNCHANGED <<slow_payload, last_slow_update, uncaught>>
          ELSE IF SlowKeys # {} /\ "smartctl" \in absent
          THEN \* publish_slow_sensors: subprocess.run raises in get_disk_smart
               /\ log' = <<>>
               /\ pc' = "crashed"
               /\ uncaught' = [exc |-> run_command_accept_error("not_found", "", "", "").raised,
                               at |-> "run_command_accept_error"]
               /\ NothingPublished
               /\ smart_log' = {}
               /\ UNCHANGED <<slow_payload, last_slow_update>>
          ELSE \E refused \in Refusals({"slow"}) :
               /\ slow_payload' = slow_payload \cup SlowKeys
               /\ smart_log' = {get_disk_smart(disk_serial_mapping[k[2]]) : k \in SlowKeys}
               /\ log' = <<"slow">>
               /\ Published(Calls({"slow"}), refused)
               /\ IF PublishRaised({"slow"}, refused)
                     THEN /\ pc' = "crashed"
                          /\ uncaught' = [exc |-> "Exception", at |-> "mqtt_publish"]
                          /\ UNCHANGED last_slow_update
                     ELSE /\ pc' = "fast"
                          /\ last_slow_update' = current_time'
                          /\ UNCHANGED uncaught
    /\ UNCHANGED <<dry_run, ncores, root_block, root_disk, disk_serial_mapping,
                   disk_path_mapping, dpm_defined, block_to_serial, cpu_core_count,
                   now, discovery_doc, failed_probes, last_scan>>

\* ------------------------------------------------- publish_fast_sensors

\* Outcomes of the iostat probe: "" (timeout, non-zero exit),
\* JSON without the statistics, or a report with the device names in names.
\* secs is how long the call blocked.
IostatOutput(kind, names, secs) == [kind |-> kind, names |-> names, secs |-> secs]

\* Keys update_iostat_data writes.
update_iostat_data(io) ==
    IF io.kind # "json" THEN {}
    ELSE {<<"cpu_avg", "">>}
         \cup {<<"disk_io", serial>> : serial \in
                {x \in DOMAIN disk_serial_mapping :
                    /\ disk_serial_mapping[x] # <<>>
                    /\ Basename(disk_serial_mapping[x]) \in io.names}}

\* update_cpu_freq raises: range(0, None), or a core's frequency file is gone.
CpuFreqRaises(freq_files) ==
    \/ cpu_core_count = NoCount
    \/ cpu_core_count > 0 /\ ~freq_files

\* ifname.replace(".", "_")
SafeIfnamePayload(ifname) ==
    [i \in DOMAIN ifname |-> IF ifname[i] = "." THEN "_" ELSE ifname[i]]

\* Keys update_network_sensors writes.
update_network_sensors(present) ==
    {<<"net_stats", SafeIfnamePayload(ifname)>> : ifname \in present}

\* Outcomes of the capacity probe (lsblk with the partition paths as
\* arguments): "" when it fails, else the block devices it lists.
UsageOutput(kind, blocks) == [kind |-> kind, blocks |-> blocks]

\* Keys update_disk_usage writes.
update_disk_usage(usage) ==
    IF usage.kind # "json" THEN {}
    ELSE {<<"disk_usage", DictGet(block_to_serial, b, "unknown")>> : b \in usage.blocks}

\* Outcomes of hdparm -C on the scanned paths: "" or the paths it reports a
\* drive state for.
HdparmOutput(kind, paths) == [kind |-> kind, paths |-> paths]

\* Keys update_disk_status writes.
update_disk_status(hd) ==
    IF DOMAIN disk_path_mapping = {} \/ hd.kind # "text" THEN {}
    ELSE {<<"disk_status", DictGet(disk_path_mapping, p, "unknown")>> : p \in hd.paths}

\* publish_fast_sensors(): the extractors in the order of the code, then the
\* publish.  An extractor that raises ends run().
publish_fast_sensors(io, present, freq_files, usage, hd, gone) ==
    LET host == (IF "cpu_temp" \notin ignore_sensors THEN {<<"cpu_temp", "">>} ELSE {})
                \cup (IF "mem_usage" \notin ignore_sensors THEN {<<"mem_usage", "">>} ELSE {})
        w_iostat == host \cup update_iostat_data(io)
        w_net == w_iostat \cup {<<"cpu_freq", "">>} \cup update_network_sensors(present)
        w_usage == w_net \cup update_disk_usage(usage)
        w_all == w_usage \cup update_disk_status(hd)
        raised == IF CpuFreqRaises(freq_files) THEN "update_cpu_freq"
                  ELSE IF ~dpm_defined THEN "update_disk_status"
                  ELSE "none"
        written == CASE raised = "update_cpu_freq" -> w_iostat
                     [] raised = "update_disk_status" -> w_usage
                     [] OTHER -> w_all
    IN
    /\ fast_payload' = fast_payload \cup written
    /\ fresh' = fresh \cup written
    /\ now' = now + io.secs
    /\ failed_probes' =
            (IF io.kind # "json" THEN {"iostat"} ELSE {})
            \cup (IF present # {ifs_name[i] : i \in DOMAIN ifs_name} THEN {"interface"} ELSE {})
            \cup (IF ~freq_files THEN {"cpufreq"} ELSE {})
            \cup (IF usage.kind # "json" THEN {"lsblk"} ELSE {})
            \cup (IF hd.kind # "text" THEN {"hdparm"} ELSE {})
            \cup (IF gone # {} THEN {"device"} ELSE {})
    /\ IF raised = "none"
          THEN \E refused \in Refusals({"fast"}) :
               /\ log' = Append(log, "fast")
               /\ Published(Calls({"fast"}), refused)
               /\ IF PublishRaised({"fast"}, refused)
                     THEN /\ pc' = "crashed"
                          /\ uncaught' = [exc |-> "Exception", at |-> "mqtt_publish"]
                     ELSE /\ pc' = "refresh"
                          /\ UNCHANGED uncaught
          ELSE /\ log' = log
               /\ pc' = "crashed"
               /\ uncaught' =
                    [exc |-> IF raised = "update_disk_status" THEN "AttributeError"
                             ELSE IF cpu_core_count = NoCount THEN "TypeError"
                             ELSE "FileNotFoundError",
                     at |-> raised]
               /\ NothingPublished
    /\ UNCHANGED <<dry_run, ncores, root_block, root_disk, disk_serial_mapping,
                   disk_path_mapping, dpm_defined, block_to_serial, cpu_core_count,
                   slow_payload, current_time, last_slow_update, discovery_doc,
                   registered_before, iterations, last_scan>>
    /\ UNCHANGED <<config, hostenv, calc, disk_bridge_type, bridge_owner, one_time_payload,
                   disk_info_payload>>
    /\ smart_log' = {}

\* What can go wrong in one fast cycle: nothing, or one probe fails (iostat
\* by failing at once, by running into run_command's timeout, or by printing
\* JSON without the statistics), or one of several scanned disks has been
\* unplugged since the scan.
FastFaults ==
    {"none", "iostat", "iostat_timeout", "iostat_json", "interface", "cpufreq",
     "usage", "hdparm", "device"}

\* The devices present during a fast cycle: those the latest parsed topology
\* report listed.
PresentDisks == DOMAIN disk_path_mapping

\* The disk that is unplugged when a device goes missing beside another one.
UnpluggedDisk ==
    IF Cardinality(PresentDisks) < 2 THEN {} ELSE {CHOOSE p \in PresentDisks : TRUE}

\* run(): the publish_fast_sensors call of an iteration.  A probe that works
\* reports every device present (iostat), every partition asked for, or every
\* disk when none is asked for (lsblk), every path asked for (hdparm).  lsblk
\* and hdparm exit with a non-zero status when one of the paths they are
\* given does not exist, and run_command turns that into "".
PublishFast ==
    /\ pc = "fast"
    /\ \E fault \in FastFaults :
        LET gone == IF fault = "device" THEN UnpluggedDisk ELSE {}
            there == PresentDisks \ gone
        IN publish_fast_sensors(
            IF fault = "iostat" THEN IostatOutput("empty", {}, 0)
            ELSE IF fault = "iostat_timeout" THEN IostatOutput("empty", {}, ProbeTimeout)
            ELSE IF fault = "iostat_json" THEN IostatOutput("malformed", {}, FastInterval)
            ELSE IostatOutput("json", {Basename(p) : p \in there}, FastInterval),
            IF fault = "interface" THEN {} ELSE {ifs_name[i] : i \in DOMAIN ifs_name},
            fault # "cpufreq",
            IF fault = "usage" THEN UsageOutput("empty", {})
            ELSE IF DOMAIN block_to_serial = {} THEN UsageOutput("json", there)
            ELSE IF {BlockPath(p) : p \in gone} \cap DOMAIN block_to_serial # {}
                THEN UsageOutput("empty", {})
            ELSE UsageOutput("json", DOMAIN block_to_serial),
            IF fault = "hdparm" \/ gone \cap DOMAIN disk_path_mapping # {}
                THEN HdparmOutput("empty", {})
            ELSE HdparmOutput("text", DOMAIN disk_path_mapping),
            gone)

\* ----------------------------------------------------------- specification

Next ==
    \/ ResolveRoot
    \/ InitialScan
    \/ CheckDependencies
    \/ PublishOnetime
    \/ IterationStart
    \/ PublishFast
    \/ RefreshInventory

Spec == Init /\ [][Next]_vars

\* The program keeps taking its next step: one thread, no waiting on input.
FairSpec == Spec /\ WF_vars(Next)

\* Configurations with ignore settings: two families in IGNORE_SENSORS, a
\* serial in the SMART list, a serial in the other per-family lists.
IgnoreChoices ==
    { [sensors |-> {"disk_load", "disk_smart"}, smart |-> {}, temp |-> {}, status |-> {}, usage |-> {}, info |-> {}],
      [sensors |-> {}, smart |-> {"S1"}, temp |-> {}, status |-> {}, usage |-> {}, info |-> {}],
      [sensors |-> {}, smart |-> {}, temp |-> {"S1"}, status |-> {"S1"}, usage |-> {"S1"}, info |-> {"S1"}] }

\* The monitor started with one of those configurations.
IgnoreInit ==
    /\ Constructed
    /\ dry_run = FALSE
    /\ ncores = 2
    /\ ifs_name = <<eth0>>
    /\ \E c \in IgnoreChoices :
        /\ ignore_sensors = c.sensors
        /\ ignore_disks_for_smart = c.smart
        /\ ignore_disks_for_temp = c.temp
        /\ ignore_disks_for_status = c.status
        /\ ignore_disks_for_usage = c.usage
        /\ ignore_disks_for_info = c.info
    /\ absent \in AbsentChoices
    /\ flaky = FALSE
    /\ usb_paths = {}

IgnoreSpec == IgnoreInit /\ [][Next]_vars

\* The monitor publishing to a broker that may refuse any message.
FlakyInit ==
    /\ Constructed
    /\ dry_run = FALSE
    /\ ncores = 2
    /\ DefaultConfig
    /\ absent = {}
    /\ flaky = TRUE
    /\ usb_paths = {}

FlakySpec == FlakyInit /\ [][Next]_vars

\* The monitor on a host where the disk at /dev/sda sits behind a USB bridge
\* that smartctl does not recognise.
BridgeInit ==
    /\ Constructed
    /\ dry_run = FALSE
    /\ ncores = 2
    /\ DefaultConfig
    /\ absent = {}
    /\ flaky = FALSE
    /\ usb_paths = {DiskPath(sda)}

BridgeSpec == BridgeInit /\ [][Next]_vars

\* Values of NETWORK_INTERFACES: a bridge; an interface and a VLAN on it.
InterfaceLists == {<<br_lan>>, <<eth0, eth0_100>>}

\* The monitor configured with one of those lists.
InterfaceInit ==
    /\ Constructed
    /\ dry_run = FALSE
    /\ ncores = 2
    /\ ifs_name \in InterfaceLists
    /\ ignore_sensors = {}
    /\ ignore_disks_for_smart = {}
    /\ ignore_disks_for_temp = {}
    /\ ignore_disks_for_status = {}
    /\ ignore_disks_for_usage = {}
    /\ ignore_disks_for_info = {}
    /\ absent = {}
    /\ flaky = FALSE
    /\ usb_paths = {}

InterfaceSpec == InterfaceInit /\ [][Next]_vars

\* ------------------------------------------- percentages and data rates

\* Python's round() of the quotient n / d to an integer, ties to even
\* (n >= 0, d > 0).
Round(n, d) ==
    LET q == n \div d
        r == n % d
    IN IF 2 * r < d THEN q
       ELSE IF 2 * r > d THEN q + 1
       ELSE IF q % 2 = 0 THEN q ELSE q + 1

\* A division by zero raises ZeroDivisionError.
Divide(n, d, scale) ==
    IF d = 0 THEN [raised |-> TRUE, value |-> 0]
    ELSE [raised |-> FALSE, value |-> Round(n * scale, d)]

\* The quotient used / total without the factor 100.
mem_fraction(data) ==
    IF data.total > 0 THEN Divide(data.used, data.total, 10)
    ELSE [raised |-> FALSE, value |-> 0]

\* (data["used"] / data["total"] * 100.0) if data["total"] > 0 else 0.0,
\* rounded to one decimal: the result in tenths of a percent.
mem_usage_percent(data) ==
    IF data.total > 0 THEN Divide(data.used, data.total, 1000)
    ELSE [raised |-> FALSE, value |-> 0]

swap_usage_percent(data) ==
    IF data.total > 0 THEN Divide(data.used, data.total, 1000)
    ELSE [raised |-> FALSE, value |-> 0]

\* get_memory_usage: its except clause names ZeroDivisionError, after which
\* the function returns the default 0.0.
get_memory_usage(percent) ==
    IF percent.raised THEN [raised |-> FALSE, value |-> 0] ELSE percent

\* The capacity percentage without its guard.
usage_percent_unguarded(fsused, fsavail) == Divide(fsused, fsused + fsavail, 10000)

\* float(round(fsused/(fsused+fsavail)*100, 2)) if fsused > 0 or fsavail > 0
\* else 0.0: the result in hundredths of a percent. update_disk_usage does
\* not catch ZeroDivisionError.
usage_percent(fsused, fsavail) ==
    IF fsused > 0 \/ fsavail > 0 THEN Divide(fsused, fsused + fsavail, 10000)
    ELSE [raised |-> FALSE, value |-> 0]

\* int(delta / self.fast_interval): the quotient truncated towards zero.
Truncated(delta) ==
    IF delta >= 0 THEN delta \div FastInterval ELSE -((-delta) \div FastInterval)

\* The rate without the test for a decreased counter.
rx_speed_unguarded(rx_delta) == Truncated(rx_delta)

\* rx_speed = 0 if rx_delta < 0, else int(rx_delta / self.fast_interval).
rx_speed(rx_delta) == IF rx_delta < 0 THEN 0 ELSE Truncated(rx_delta)

\* tx_speed, computed the same way.
tx_speed(tx_delta) == IF tx_delta < 0 THEN 0 ELSE Truncated(tx_delta)

Readings == 0 .. MaxReading

\* Values of an interface's byte counter; a later value below an earlier one
\* is a counter that was reset or has wrapped.
CounterValues == {0, 5, 25}

\* Numbers of whitespace-separated fields of a "Mem:" line (the label, then
\* total used free shared buff/cache available) and of a "Swap:" line (the
\* label, then total used free): a complete line and one cut short.
MemLineLengths == {4, 7}
SwapLineLengths == {2, 4}

\* mem_data and swap_data: the fields of the line if it has at least
\* needed of them, else the zeros they were initialised with.
parse_line(parts, needed, total, used, free) ==
    IF parts >= needed THEN [total |-> total, used |-> used, free |-> free]
    ELSE [total |-> 0, used |-> 0, free |-> 0]

\* get_memory_usage on a "Mem:" line of parts fields.
MemoryUsage ==
    \E parts \in MemLineLengths, total \in Readings, used \in Readings, free \in Readings :
        LET data == parse_line(parts, 7, total, used, free)
            r == get_memory_usage(mem_usage_percent(data))
        IN /\ sample' = [sample EXCEPT !.total = total, !.used = used, !.free = free,
                                       !.parts = parts, !.mountpoint = "none"]
           /\ computed' = [NotComputed EXCEPT !.fn = "mem_usage",
                                              !.raised = r.raised, !.value = r.value,
                                              !.data = data]
           /\ UNCHANGED monitor

\* get_memory_usage on a "Swap:" line.
SwapUsage ==
    \E parts \in SwapLineLengths, total \in Readings, used \in Readings, free \in Readings :
        LET data == parse_line(parts, 4, total, used, free)
            r == get_memory_usage(swap_usage_percent(data))
        IN /\ sample' = [sample EXCEPT !.total = total, !.used = used, !.free = free,
                                       !.parts = parts, !.mountpoint = "none"]
           /\ computed' = [NotComputed EXCEPT !.fn = "swap_usage",
                                              !.raised = r.raised, !.value = r.value,
                                              !.data = data]
           /\ UNCHANGED monitor

\* A key the JSON object does not hold.
KeyMissing == "<missing>"

\* block.get(key, default): the default only when the key is missing; a key
\* that holds null gives None.
block_get(value, default) == IF value = KeyMissing THEN default ELSE value

\* The "mountpoint" member of a block of the capacity report: a path for a
\* mounted filesystem, whose sizes are reported; null, or no such member,
\* for an unmounted one, whose sizes are null and read as 0 by safe_int.
MountPoints(fssize, fsused, fsavail) ==
    IF fssize = 0 /\ fsused = 0 /\ fsavail = 0 THEN {NoneVal, KeyMissing}
    ELSE {"/mnt/data"}

\* update_disk_usage on one filesystem of the capacity report.
DiskUsage ==
    \E fssize \in Readings, fsused \in Readings, fsavail \in Readings :
        \E mountpoint \in MountPoints(fssize, fsused, fsavail) :
        LET r == usage_percent(fsused, fsavail)
        IN /\ sample' = [sample EXCEPT !.total = fssize, !.used = fsused, !.free = fsavail,
                                       !.parts = 0, !.mountpoint = mountpoint]
           /\ computed' = [NotComputed EXCEPT !.fn = "disk_usage",
                                              !.raised = r.raised, !.value = r.value,
                                              !.mount_point =
                                                  block_get(mountpoint, "unmounted")]
           /\ UNCHANGED monitor

\* publish_fast_sensors stores the counters of an interface in if_statistics.
CounterSnapshot ==
    \E rx \in CounterValues, tx \in CounterValues :
        /\ sample' = [sample EXCEPT !.rx_bytes = rx, !.tx_bytes = tx]
        /\ UNCHANGED <<monitor, computed>>

\* update_network_sensors reads the counters again and derives the rates.
NetworkRates ==
    \E rx \in CounterValues, tx \in CounterValues :
        LET rx_delta == rx - sample.rx_bytes
            tx_delta == tx - sample.tx_bytes
        IN /\ computed' = [NotComputed EXCEPT !.fn = "net_stats",
                                              !.rx_delta = rx_delta,
                                              !.tx_delta = tx_delta,
                                              !.rx_speed = rx_speed(rx_delta),
                                              !.tx_speed = tx_speed(tx_delta)]
           /\ sample' = [sample EXCEPT !.parts = 0, !.mountpoint = "none"]
           /\ UNCHANGED monitor

CalcNext ==
    \/ MemoryUsage
    \/ SwapUsage
    \/ DiskUsage
    \/ CounterSnapshot
    \/ NetworkRates

\* A constructed monitor with the default configuration.
CalcInit ==
    /\ Constructed
    /\ dry_run = FALSE
    /\ ncores = 2
    /\ DefaultConfig
    /\ absent = {}
    /\ flaky = FALSE
    /\ usb_paths = {}

\* The arithmetic of the fast tier applied to every reading within the bounds.
CalcSpec == CalcInit /\ [][CalcNext]_vars

\* ------------------------------------------------------ CPU temperature

\* Chip names of a sensors -j report: Intel's coretemp, the virtual thermal
\* sensor of ARM boards, AMD's k10temp.
SensorNames == {"coretemp-isa-0000", "cpu_thermal-virtual-0", "k10temp-pci-00c3"}

\* word in sensor_name.lower()
NameHas(sensor_name, word) ==
    CASE sensor_name = "coretemp-isa-0000" -> word = "coretemp"
      [] sensor_name = "cpu_thermal-virtual-0" ->
            word \in {"cpu", "cpu_thermal", "thermal", "virtual"}
      [] OTHER -> FALSE

\* The "Core n" entries of a chip, core number -> reading in tenths of a
\* degree: none, core 0, cores 0 and 1, cores 0 and 2, core 1 alone.
CoreReadings ==
    { EmptyMap,
      [n \in {0} |-> 400],
      [n \in {0, 1} |-> IF n = 0 THEN 400 ELSE 420],
      [n \in {0, 2} |-> IF n = 0 THEN 400 ELSE 440],
      [n \in {1} |-> 420] }

\* One chip of the report: its "temp1" reading, its "Package id 0" reading
\* (each a set with at most one value) and its "Core n" readings, all in
\* tenths of a degree.
SensorData ==
    [name : SensorNames, temp1 : {{}, {500}}, package : {{}, {450}},
     cores : CoreReadings]

\* Contents of /sys/class/thermal/thermal_zone0/temp in millidegrees; no
\* value when the file is missing.
ZoneReadings == {{}, {47000}, {52540}}

RECURSIVE SumOf(_)
SumOf(seq) == IF seq = <<>> THEN 0 ELSE seq[1] + SumOf(Tail(seq))

TheOne(set) == CHOOSE x \in set : TRUE

\* core_count after the loop over the "Core n" entries: the highest core
\* number plus one, 0 without entries.
core_count(core_data_dict) ==
    IF DOMAIN core_data_dict = {} THEN 0
    ELSE (CHOOSE n \in DOMAIN core_data_dict :
              \A m \in DOMAIN core_data_dict : m <= n) + 1

\* The array built by appending the readings in the order of the entries,
\* without filling.
core_temps_array_unfilled(core_data_dict) ==
    LET present == SelectSeq([i \in 1..core_count(core_data_dict) |-> i - 1],
                             LAMBDA n : n \in DOMAIN core_data_dict)
    IN [i \in 1..Len(present) |-> core_data_dict[present[i]]]

\* core_temps_array: core_data_dict.get(i, 0.0) for i in range(core_count).
core_temps_array(core_data_dict) ==
    [i \in 1..core_count(core_data_dict) |->
        DictGet(core_data_dict, i - 1, 0)]

\* main_temp from the array alone, as sum / len.
main_temp_of_array(array) ==
    IF array # <<>> THEN Round(SumOf(array), Len(array)) ELSE 0

\* The body of the second "if" of the sensor loop: the package reading, else
\* the average over the core array, else 0.0, filed under the chip's name
\* together with the array.
PackageOrCores(sensor_data) ==
    LET array == core_temps_array(sensor_data.cores)
    IN [found |-> TRUE,
        value |-> IF sensor_data.package # {} THEN TheOne(sensor_data.package)
                  ELSE main_temp_of_array(array),
        sensor |-> sensor_data.name,
        attrs |-> {"sensor", "cores"},
        cores |-> array]

\* The loop over data.items() from entry i on: the first chip that makes the
\* loop return.
RECURSIVE SensorLoop(_, _)
SensorLoop(report, i) ==
    IF i > Len(report)
        THEN [found |-> FALSE, value |-> 0, sensor |-> "none", attrs |-> {}, cores |-> <<>>]
    ELSE LET sensor_data == report[i]
             name == sensor_data.name
         IN IF /\ NameHas(name, "coretemp") \/ NameHas(name, "cpu_thermal")
               /\ NameHas(name, "thermal") /\ NameHas(name, "virtual")
               /\ sensor_data.temp1 # {}
               THEN [found |-> TRUE, value |-> TheOne(sensor_data.temp1), sensor |-> name,
                     attrs |-> {"sensor", "source"}, cores |-> <<>>]
            ELSE IF NameHas(name, "coretemp") \/ NameHas(name, "cpu")
               THEN PackageOrCores(sensor_data)
            ELSE SensorLoop(report, i + 1)

\* The fallback: thermal_zone0 in millidegrees divided by 1000 and rounded
\* to one decimal, else 0.0 under the sensor "unknown".
ThermalZone(zone) ==
    IF zone # {} THEN [value |-> Round(TheOne(zone), 100), sensor |-> "thermal_zone0",
                       attrs |-> {"sensor", "source"}, cores |-> <<>>]
    ELSE [value |-> 0, sensor |-> "unknown", attrs |-> {"sensor", "error"}, cores |-> <<>>]

\* update_cpu_temperature: fast_payload['cpu_temp'] for a sensors -j outcome
\* (probe is "empty", "malformed" or "json") and a thermal-zone file.
update_cpu_temperature(probe, report, zone) ==
    LET hit == IF probe = "json" THEN SensorLoop(report, 1)
               ELSE [found |-> FALSE, value |-> 0, sensor |-> "none", attrs |-> {},
                     cores |-> <<>>]
    IN IF hit.found THEN [value |-> hit.value, sensor |-> hit.sensor,
                          attrs |-> hit.attrs, cores |-> hit.cores]
       ELSE ThermalZone(zone)

\* The temperature is taken with a sensors probe that gave nothing usable.
TemperatureWithoutSensors ==
    \E probe \in {"empty", "malformed"}, zone \in ZoneReadings :
        LET r == update_cpu_temperature(probe, <<>>, zone)
        IN /\ sample' = [NoSample EXCEPT !.probe = probe, !.zone = zone]
           /\ computed' = [NotComputed EXCEPT !.fn = "cpu_temp", !.value = r.value,
                                              !.sensor = r.sensor, !.attrs = r.attrs,
                                              !.cores = r.cores]
           /\ UNCHANGED monitor

\* The temperature is taken with a sensors report of no chip or one chip.
TemperatureFromSensors ==
    \E report \in {<<>>} \cup {<<sd>> : sd \in SensorData}, zone \in ZoneReadings :
        LET r == update_cpu_temperature("json", report, zone)
        IN /\ sample' = [NoSample EXCEPT !.probe = "json", !.report = report,
                                         !.zone = zone]
           /\ computed' = [NotComputed EXCEPT !.fn = "cpu_temp", !.value = r.value,
                                              !.sensor = r.sensor, !.attrs = r.attrs,
                                              !.cores = r.cores]
           /\ UNCHANGED monitor

TempNext ==
    \/ TemperatureWithoutSensors
    \/ TemperatureFromSensors

\* update_cpu_temperature applied to every sensors outcome within the bounds.
TempSpec == CalcInit /\ [][TempNext]_vars

\* ------------------------------------------------------ the root device

sdp == <<"s", "d", "p">>
hda == <<"h", "d", "a">>
nvme1n1 == <<"n", "v", "m", "e", "1", "n", "1">>
mmcblk0 == <<"m", "m", "c", "b", "l", "k", "0">>

\* Disks whose partitions are named by appending the number (sda1), and
\* disks whose partitions are named by appending "p" and the number
\* (nvme0n1p1, mmcblk0p1).
ScsiDisks == {sda, sdb, sdp, hda, vda}
NvmeMmcDisks == {nvme0n1, nvme1n1, mmcblk0}

DigitSeq == <<"0", "1", "2", "3", "4", "5", "6", "7", "8", "9">>

\* str(n) for n >= 0.
RECURSIVE Decimal(_)
Decimal(n) ==
    IF n < 10 THEN <<DigitSeq[n + 1]>>
    ELSE Decimal(n \div 10) \o <<DigitSeq[(n % 10) + 1]>>

\* The name the kernel gives partition n of a disk.
PartitionName(disk, n) ==
    IF disk \in NvmeMmcDisks THEN disk \o <<"p">> \o Decimal(n)
    ELSE disk \o Decimal(n)

\* run(): findmnt names partition n of a disk as the source of "/", and the
\* suffix strip gives root_disk.
StripRootSuffix ==
    \E disk \in ScsiDisks \cup NvmeMmcDisks, n \in 1..MaxPartition :
        LET source == Dev \o PartitionName(disk, n)
        IN /\ sample' = [NoSample EXCEPT !.source = source, !.disk = DiskPath(disk)]
           /\ computed' = [NotComputed EXCEPT !.fn = "root_disk",
                                              !.text = StripPartitionSuffix(source)]
           /\ UNCHANGED monitor

RootNext ==
    \/ StripRootSuffix

\* The suffix strip applied to every partition of every disk within the bounds.
RootSpec == CalcInit /\ [][RootNext]_vars

\* ------------------------------------------------------------- the probes

\* Values of FAST_INTERVAL.
FastIntervals == 1 .. MaxFastInterval

\* subprocess.run(cmd, timeout=timeout) on a working command that returns a
\* moment after duration seconds: it is killed, and TimeoutExpired raised,
\* when it has not returned after timeout seconds.
Outcome(duration, timeout) == IF duration >= timeout THEN "timeout" ELSE "exit0"

\* update_iostat_data with FAST_INTERVAL = fast_interval: the command
\* iostat -d <fast_interval> 1 -y ..., which samples for fast_interval
\* seconds, under run_command's default timeout.
iostat_probe(fast_interval) ==
    LET timeout == ProbeTimeout
    IN [timeout |-> timeout,
        output |-> run_command(Outcome(fast_interval, timeout), "json", "empty").value]

\* One update_iostat_data call of a monitor configured with some interval.
RunIostat ==
    \E fast_interval \in FastIntervals :
        LET r == iostat_probe(fast_interval)
        IN /\ sample' = [NoSample EXCEPT !.fast_interval = fast_interval]
           /\ computed' = [NotComputed EXCEPT !.fn = "iostat", !.timeout = r.timeout,
                                              !.output = r.output]
           /\ UNCHANGED monitor

\* Kinds of entries of smartctl.messages: the "Unknown USB bridge"
\* diagnostic, "SMART support is: Unavailable", another message of severity
\* "error", and an informational one.
MessageKinds == {"bridge", "unavailable", "error", "info"}

\* A smartctl -A -H -j report: smartctl.exit_status, smartctl.messages (at
\* most one), smart_status.passed and temperature.current, each of the last
\* two a set with at most one value.  A report that says the bridge is
\* unknown or SMART unavailable has a non-zero exit status and neither a
\* status nor a temperature.
SmartReports ==
    {rep \in [exit_status : {0, 4},
              messages : {<<>>} \cup {<<k>> : k \in MessageKinds},
              passed : {{}, {TRUE}, {FALSE}},
              temperature : {{}, {35}}] :
        (rep.messages \in {<<"bridge">>, <<"unavailable">>}) =>
            rep.exit_status # 0 /\ rep.passed = {} /\ rep.temperature = {}}

\* error_conditions after the loop over the messages.
error_conditions(messages) ==
    SelectSeq(messages, LAMBDA k : k \in {"bridge", "unavailable", "error"})

\* The part of get_disk_smart inside the try block: json.loads of output,
\* then the limited sample or the full one.
parse_smart_output(output, report) ==
    IF output # "json"
        THEN [smart_passed |-> 0, temperature |-> 0, keys |-> {"smart_passed", "temperature", "attrs"},
              attrs |-> {"error", "supported"}]
    ELSE IF report.exit_status # 0 /\ error_conditions(report.messages) # <<>>
        THEN [smart_passed |-> 0, temperature |-> 0, keys |-> {"smart_passed", "temperature", "attrs"},
              attrs |-> {"error", "exit_status", "supported"}]
    ELSE [smart_passed |-> IF report.passed = {TRUE} THEN 1 ELSE 0,
          temperature |-> IF report.temperature # {} THEN TheOne(report.temperature) ELSE 0,
          keys |-> {"smart_passed", "temperature", "attrs"},
          attrs |-> {"supported"}]

\* get_disk_smart as to the sample it returns, for a smartctl call that
\* fares as outcome and writes stdout and stderr; report is what stdout
\* holds when it is JSON.
get_disk_smart_sample(outcome, stdout, stderr, report) ==
    LET out == run_command_accept_error(outcome, stdout, stderr, "")
    IN IF out.raised # "none"
          THEN [raised |-> TRUE, smart_passed |-> 0, temperature |-> 0, keys |-> {},
                attrs |-> {}]
       ELSE IF out.value = ""
          THEN [raised |-> FALSE, smart_passed |-> 0, temperature |-> 0,
                keys |-> {"smart_passed", "temperature", "attrs"}, attrs |-> {"error"}]
       ELSE LET r == parse_smart_output(out.value, report)
            IN [raised |-> FALSE, smart_passed |-> r.smart_passed,
                temperature |-> r.temperature, keys |-> r.keys, attrs |-> r.attrs]

\* What a smartctl call can give: killed, with nothing written; else its
\* exit status, which the report repeats, with a report, text that is not
\* JSON or nothing on stdout and perhaps text on stderr.
SmartProbes ==
    {[outcome |-> o, stdout |-> "", stderr |-> "", smart |-> NoSample.smart] :
        o \in {"timeout"}}
    \cup {[outcome |-> o, stdout |-> so, stderr |-> se, smart |-> NoSample.smart] :
            o \in {"exit0", "nonzero"}, so \in {"", "malformed"}, se \in {"", "malformed"}}
    \cup {[outcome |-> IF rep.exit_status = 0 THEN "exit0" ELSE "nonzero",
           stdout |-> "json", stderr |-> "", smart |-> rep] : rep \in SmartReports}

\* publish_slow_sensors takes the health sample of one disk.
SmartHealth ==
    \E probe \in SmartProbes :
        LET r == get_disk_smart_sample(Started("smartctl", probe.outcome), probe.stdout,
                                       probe.stderr, probe.smart)
        IN /\ sample' = [NoSample EXCEPT !.outcome = probe.outcome, !.stdout = probe.stdout,
                                         !.stderr = probe.stderr, !.smart = probe.smart]
           /\ computed' = [NotComputed EXCEPT !.fn = "disk_smart", !.raised = r.raised,
                                              !.smart_passed = r.smart_passed,
                                              !.value = r.temperature,
                                              !.keys = r.keys, !.attrs = r.attrs]
           /\ UNCHANGED monitor

ProbeNext ==
    \/ RunIostat
    \/ SmartHealth

\* The probes applied to every interval and every outcome within the bounds.
ProbeSpec == CalcInit /\ [][ProbeNext]_vars

\* ------------------------------------------------------------------ claims

Count(l, e) == Cardinality({i \in DOMAIN l : l[i] = e})

\* The log after its latest inventory scan began.
AfterScan ==
    LET at == {i \in DOMAIN log : log[i] = "scan"}
    IN IF at = {} THEN <<>>
       ELSE SubSeq(log, (CHOOSE i \in at : \A j \in at : j <= i) + 1, Len(log))

\* An update_disk_mapping call has just returned.
JustScanned == pc = "check_dependencies" \/ (pc = "loop" /\ iterations > 0)

\* The latest scan got a report it could parse.
ScanParsed == last_scan.result \in {"changed", "unchanged", "type_error"}

\* The serials the latest scan found on accepted devices.
FoundSerials == DOMAIN last_scan.new \ {NoneVal}

\* C1: a scan that finds a serial set different from the previous one publishes
\* the discovery document exactly once, before any later fast publish.
C1_ChangedScanPublishesDiscoveryOnce ==
    (JustScanned /\ ScanParsed /\ FoundSerials # last_scan.old)
        => /\ Count(AfterScan, "discovery") = 1
           /\ Count(AfterScan, "fast") = 0

\* C2: a scan that finds the serial set the inventory held since the previous
\* scan publishes no discovery document and no disk-info batch and takes no
\* settling delay: the clock does not move during it.
C2_UnchangedScanIsSilent ==
    (JustScanned /\ ScanParsed /\ FoundSerials = last_scan.old)
        => /\ Count(AfterScan, "discovery") = 0
           /\ Count(AfterScan, "diskinfo") = 0
           /\ Count(AfterScan, "settle") = 0
           /\ now = last_scan.at

C2_Witness ==
    /\ JustScanned
    /\ last_scan.result = "unchanged"
    /\ last_scan.old # {}
    /\ last_scan.new # disk_serial_mapping

StatePublishes == {"fast", "slow", "one_time", "diskinfo"}

\* C3: outside a dry run every state publish comes after a discovery publish
\* and the settling delay, and what the fast batch carries is registered.
C3_DiscoveryPrecedesEveryStatePublish ==
    ~dry_run =>
        /\ \A i \in DOMAIN log : log[i] \in StatePublishes =>
                \/ registered_before
                \/ \E j, k \in 1..(i - 1) :
                        j < k /\ log[j] = "discovery" /\ log[k] = "settle"
        /\ pc = "refresh" =>
                \A key \in fast_payload :
                    \E c \in discovery_doc.cmps : c.topic = "fast" /\ c.key = key

\* C4: a fast cycle in which a probe failed still publishes its batch: run()
\* is not ended by it.
C4_ProbeFailureDoesNotEndLoop ==
    ~(pc = "crashed" /\ failed_probes # {} /\ cpu_core_count # NoCount)

\* The keys a fast batch is to carry for the inventory of its cycle.
ExpectedFastKeys ==
    {<<"script", "">>, <<"cpu_temp", "">>, <<"mem_usage", "">>, <<"cpu_avg", "">>,
     <<"cpu_freq", "">>}
    \cup {<<"net_stats", SafeIfnamePayload(ifs_name[i])>> : i \in DOMAIN ifs_name}
    \cup UNION {{<<"disk_io", s>>, <<"disk_usage", s>>, <<"disk_status", s>>} :
                    s \in DOMAIN disk_serial_mapping}

\* C5: the fast batch a cycle publishes holds, for every family and target, a
\* sample written in that cycle, whichever probes failed.
C5_FastBatchHasFreshSampleForEveryTarget ==
    pc = "refresh" => ExpectedFastKeys \subseteq fresh

\* C6: every iteration that starts goes on to publish its fast batch.
C6_StartedIterationPublishesFast == (pc = "fast") ~> (pc = "refresh")

\* C7: an iteration publishes the slow batch exactly when the time since the
\* last slow update is at least the slow interval; the timestamp then becomes
\* the iteration's current time and is otherwise left alone, by every step.
C7_SlowPublishedIffIntervalElapsed ==
    [][ /\ (pc = "loop" /\ pc' = "fast") =>
            /\ (Count(log', "slow") = 1) <=> (current_time' - last_slow_update >= SlowInterval)
            /\ Count(log', "slow") <= 1
            /\ current_time' = now
            /\ last_slow_update' = IF Count(log', "slow") = 1 THEN current_time'
                                   ELSE last_slow_update
        /\ ~(pc = "loop" /\ pc' = "fast") =>
            /\ last_slow_update' = last_slow_update
            /\ Count(log', "slow") <= Count(log, "slow")
      ]_vars

C7_Witness ==
    /\ pc = "fast"
    /\ iterations = 2
    /\ log = <<"slow">>
    /\ current_time = StartTime + SlowInterval
    /\ last_slow_update = current_time

\* An iteration of the loop is over: the next one is due, or run() has ended.
IterationOver == (pc = "loop" /\ iterations > 0) \/ pc = "crashed"

IsTierEvent(e) == e \in {"slow", "fast", "scan"}

\* C8: an iteration is an optional slow publish, then exactly one fast
\* publish, then the inventory refresh.
C8_IterationIsSlowFastRefresh ==
    IterationOver =>
        SelectSeq(log, IsTierEvent) \in {<<"fast", "scan">>, <<"slow", "fast", "scan">>}

\* C9: after a scan that parsed its report, every inventory serial is stored
\* with the path that scan reported for it.
C9_InventoryPathsFollowScan ==
    (JustScanned /\ last_scan.result \in {"changed", "unchanged"}) =>
        \A s \in DOMAIN disk_serial_mapping :
            s \in DOMAIN last_scan.new /\ disk_serial_mapping[s] = last_scan.new[s]

\* C10: when a fast cycle starts, the partition map holds for every inventory
\* serial its primary-partition path (the root source for the root device, p1
\* appended to an NVMe/MMC path, 1 appended otherwise), and nothing else.
C10_PartitionMapCoversInventory ==
    pc = "fast" =>
        /\ DOMAIN block_to_serial =
                {BlockPath(disk_serial_mapping[s]) : s \in DOMAIN disk_serial_mapping}
        /\ \A s \in DOMAIN disk_serial_mapping :
                block_to_serial[BlockPath(disk_serial_mapping[s])] = s

\* The metric families a discovery component belongs to, by its id.
FamiliesOfCmp(kind) ==
    CASE kind \in {"disk_write", "disk_read", "disk_util"} -> {"disk_load"}
      [] kind = "disk_temp" -> {"disk_temp", "disk_smart"}
      [] kind = "memory_usage" -> {"mem_usage", "ram_usage"}
      [] kind = "swap_usage" -> {"mem_usage", "swap_usage"}
      [] kind \in {"net_rx", "net_tx", "net_link_speed", "net_duplex"} -> {"net_stats", kind}
      [] OTHER -> {kind}

\* The metric family a payload key belongs to.
FamilyOfKey(kind) ==
    CASE kind = "script" -> "monitoring"
      [] kind = "uptime" -> "last_boot"
      [] kind = "cpu_avg" -> "cpu_usage"
      [] kind = "disk_io" -> "disk_load"
      [] kind = "diskinfo" -> "disk_info"
      [] OTHER -> kind

\* The configuration ignores the family, or the target for that family.
Ignored(family, target) ==
    \/ family \in ignore_sensors
    \/ family = "disk_smart" /\ target \in ignore_disks_for_smart
    \/ family = "disk_temp" /\ target \in ignore_disks_for_temp
    \/ family = "disk_status" /\ target \in ignore_disks_for_status
    \/ family = "disk_usage" /\ target \in ignore_disks_for_usage
    \/ family = "disk_info" /\ target \in ignore_disks_for_info

AllPayloadKeys == fast_payload \cup slow_payload \cup one_time_payload \cup disk_info_payload

\* C11: no discovery document registers, and no batch payload carries, an
\* entry of an ignored family or of a target that the family's list ignores.
C11_IgnoredTargetsAreAbsent ==
    /\ \A c \in discovery_doc.cmps :
            \A f \in FamiliesOfCmp(c.id[1]) : ~Ignored(f, c.id[2])
    /\ \A k \in AllPayloadKeys : ~Ignored(FamilyOfKey(k[1]), k[2])

\* C12: no exception leaves run_command or run_command_accept_error, whatever
\* becomes of the command.
C12_CommandRunnersNeverRaise ==
    uncaught.at \notin {"run_command", "run_command_accept_error"}

\* C13: a refused publish ends nothing and changes nothing: no exception
\* leaves mqtt_publish; the step goes on as it does after an accepted publish
\* (the slow timestamp still advances, the settling delay is still taken,
\* run() moves to its next position); the message is handed over once, not
\* again; and the step after a refused publish does its own publishes.
C13_FailedPublishIsDropped ==
    [][ /\ uncaught'.at # "mqtt_publish"
        /\ \A t \in publish_failed' : Count(log', t) = 1
        /\ (pc = "loop" /\ "slow" \in publish_failed') =>
                pc' = "fast" /\ last_slow_update' = current_time'
        /\ (pc = "fast" /\ "fast" \in publish_failed') => pc' = "refresh"
        /\ (pc = "onetime" /\ "one_time" \in publish_failed') => pc' = "loop"
        /\ (pc = "refresh" /\ publish_failed' # {}) =>
                pc' = "loop" /\ now' = now + SettleDelay
        /\ (pc = "fast" /\ "slow" \in publish_failed /\ pc' # "crashed") =>
                <<"fast", FALSE>> \in publishes' /\ Count(log', "fast") = 1
        /\ (pc = "loop" /\ "discovery" \in publish_failed /\ SlowDue(now, last_slow_update)) =>
                Count(log', "slow") = 1
      ]_vars

C13_Witness ==
    /\ publish_failed = {"fast"}
    /\ pc = "refresh"
    /\ iterations = 2

\* C14: every discovery, one_time and diskinfo publish is retained; no fast
\* or slow publish is.
C14_RetainFlags ==
    \A c \in publishes :
        /\ c[1] \in {"discovery", "one_time", "diskinfo"} => c[2] = TRUE
        /\ c[1] \in {"fast", "slow"} => c[2] = FALSE

C14_Witness == {c[1] : c \in publishes} = {"discovery", "one_time", "diskinfo", "fast", "slow"}

\* The commands that have to be installed: sensors, iostat, hdparm, and
\* smartctl unless the disk_smart family is ignored.
NeededTools ==
    {"sensors", "iostat", "hdparm"}
        \cup (IF "disk_smart" \in ignore_sensors THEN {} ELSE {"smartctl"})

\* C15: with a needed command missing, run() never begins a loop iteration
\* and publishes no fast and no slow batch; it does not get past the
\* dependency check.
C15_MissingToolExitsBeforeLoop ==
    absent \cap NeededTools # {} =>
        /\ iterations = 0
        /\ pc \in {"start", "initial_scan", "check_dependencies", "exited", "crashed"}
        /\ \A c \in publishes : c[1] \notin {"fast", "slow"}

C15_Witness == pc = "exited" /\ absent = {"iostat", "hdparm"} /\ publishes # {}

DiskKinds ==
    {"disk_smart", "disk_temp", "disk_info", "disk_write", "disk_read",
     "disk_util", "disk_usage", "disk_status"}

DiskKeyKinds == {"disk_smart", "diskinfo", "disk_io", "disk_usage", "disk_status"}

\* C16: after a scan whose report lists no block devices the inventory is
\* empty, a discovery document without disk entities has been published and no
\* payload holds a disk key.
C16_EmptyScanLeavesNoDisks ==
    (JustScanned /\ last_scan.result \in {"changed", "unchanged"} /\ ~last_scan.listed) =>
        /\ disk_serial_mapping = EmptyMap
        /\ discovery_doc.published
        /\ \A c \in discovery_doc.cmps : c.id[1] \notin DiskKinds
        /\ \A k \in AllPayloadKeys : k[1] \notin DiskKeyKinds

\* The per-device ignore lists name the serial.
SerialIgnored(serial) ==
    serial \in ignore_disks_for_smart \cup ignore_disks_for_temp
                \cup ignore_disks_for_status \cup ignore_disks_for_usage
                \cup ignore_disks_for_info

\* C17: the disk entities of the latest discovery document are those of the
\* current inventory: every serial of the inventory that no ignore list names
\* has each disk entity whose families are not ignored, and every disk entity
\* belongs to a serial of the inventory; while no document has been published
\* the inventory is empty.
C17_DiscoveryCoversInventory ==
    /\ ~discovery_doc.published => disk_serial_mapping = EmptyMap
    /\ discovery_doc.published =>
        /\ \A c \in discovery_doc.cmps :
                c.id[1] \in DiskKinds => c.id[2] \in DOMAIN disk_serial_mapping
        /\ \A serial \in DOMAIN disk_serial_mapping : ~SerialIgnored(serial) =>
                \A kind \in DiskKinds :
                    FamiliesOfCmp(kind) \cap ignore_sensors = {} =>
                        \E c \in discovery_doc.cmps : c.id = <<kind, serial>>

\* A changed scan has removed a serial and kept another.
C17_Witness ==
    /\ JustScanned
    /\ last_scan.result = "changed"
    /\ last_scan.old \ DOMAIN disk_serial_mapping # {}
    /\ disk_serial_mapping # EmptyMap
    /\ discovery_doc.published

\* C18: a percentage whose denominator is zero is 0.0 and raises nothing: the
\* memory and swap percentage with total = 0, the capacity percentage with
\* used = avail = 0.
C18_ZeroDenominatorGivesZero ==
    /\ (computed.fn \in {"mem_usage", "swap_usage"} /\ sample.total = 0) =>
            ~computed.raised /\ computed.value = 0
    /\ (computed.fn = "disk_usage" /\ sample.used = 0 /\ sample.free = 0) =>
            ~computed.raised /\ computed.value = 0

\* The capacity percentage of an empty, unmounted filesystem has been taken.
C18_Witness ==
    /\ computed.fn = "disk_usage"
    /\ sample.used = 0 /\ sample.free = 0 /\ sample.total = 0
    /\ computed.value = 0 /\ ~computed.raised

\* C19: the rx and tx rates are never negative, and a counter that reads
\* lower than its snapshot gives the rate 0.
C19_RatesNeverNegative ==
    computed.fn = "net_stats" =>
        /\ computed.rx_speed >= 0 /\ computed.tx_speed >= 0
        /\ computed.rx_delta < 0 => computed.rx_speed = 0
        /\ computed.tx_delta < 0 => computed.tx_speed = 0

\* The rx counter fell by more than one interval's worth while the tx counter
\* advanced.
C19_Witness ==
    /\ computed.fn = "net_stats"
    /\ computed.rx_delta <= -FastInterval /\ computed.rx_speed = 0
    /\ computed.tx_delta > 0 /\ computed.tx_speed > 0

HealthyFastKeys ==
    {<<"script", "">>, <<"cpu_temp", "">>, <<"mem_usage", "">>, <<"cpu_freq", "">>}
    \cup update_iostat_data(IostatOutput("json", {Basename(p) : p \in PresentDisks},
                                         FastInterval))
    \cup update_network_sensors({ifs_name[i] : i \in DOMAIN ifs_name})
    \cup update_disk_usage(UsageOutput("json", IF DOMAIN block_to_serial # {}
                                                  THEN DOMAIN block_to_serial
                                                  ELSE PresentDisks))
    \cup update_disk_status(HdparmOutput("text", DOMAIN disk_path_mapping))

\* The key belongs to the target that was missing in the latest fast cycle:
\* the unplugged disk, the interface.
OfMissingTarget(k) ==
    \/ /\ "interface" \in failed_probes
       /\ k[1] = "net_stats"
    \/ /\ "device" \in failed_probes
       /\ k[1] \in {"disk_io", "disk_usage", "disk_status"}
       /\ k[2] \in {disk_path_mapping[p] : p \in UnpluggedDisk}

\* C21: a fast batch published after a cycle in which one disk or interface
\* was missing holds, for every other target, the sample the cycle would have
\* written had nothing been missing.
C21_MissingTargetLeavesOthersAlone ==
    (pc = "refresh" /\ failed_probes \cap {"device", "interface"} # {}) =>
        \A k \in HealthyFastKeys : ~OfMissingTarget(k) => k \in fresh

\* C22: every disk key of a fast or slow batch that has just been published
\* names a serial of the inventory.
C22_DiskKeysNameInventorySerials ==
    /\ pc = "refresh" =>
            \A k \in fast_payload :
                k[1] \in {"disk_io", "disk_usage", "disk_status"} =>
                    k[2] \in DOMAIN disk_serial_mapping
    /\ (pc = "fast" /\ Count(log, "slow") = 1) =>
            \A k \in slow_payload :
                k[1] = "disk_smart" => k[2] \in DOMAIN disk_serial_mapping

\* C23: the fast batch of a cycle that read every interface holds, for each
\* network entity of the published discovery document, the key that the
\* entity's value expression reads.
C23_InterfaceKeysAgree ==
    (pc = "refresh" /\ "interface" \notin failed_probes) =>
        \A c \in discovery_doc.cmps :
            c.id[1] \in {"net_rx", "net_tx", "net_link_speed", "net_duplex"} =>
                c.key \in fresh

\* C24: whenever a fast cycle is about to run, the core count has been
\* detected.
C24_CoreCountKnownBeforeFastCycle ==
    pc = "fast" => cpu_core_count # NoCount

\* C25: once the discovery document has been built the cached core count is
\* the index of the first core without a frequency file, CoreProbeLimit when
\* no core below it is missing; and a count that has been cached is never
\* changed.
C25_CoreCountIsFirstMissingCore ==
    /\ [](discovery_doc.published =>
            cpu_core_count = IF ncores < CoreProbeLimit THEN ncores ELSE CoreProbeLimit)
    /\ [][cpu_core_count # NoCount => cpu_core_count' = cpu_core_count]_vars

\* C26: a scan whose probe returned nothing, or something that does not
\* parse, leaves the inventory, the path map and the partition map as they
\* were and publishes nothing.
C26_FailedScanChangesNothing ==
    [][ (pc \in {"initial_scan", "refresh"}
            /\ last_scan'.result \in {"no_output", "parse_error"}) =>
            /\ UNCHANGED <<disk_serial_mapping, disk_path_mapping, block_to_serial>>
            /\ log' = Append(log, "scan")
      ]_vars

\* C27: a smartctl call that passes a cached bridge mode probes the disk on
\* which that mode was learnt.
C27_BridgeModeStaysWithItsDisk ==
    \A q \in smart_log :
        q.mode # "" =>
            \A serial \in DOMAIN disk_serial_mapping :
                disk_serial_mapping[serial] = q.path => serial = bridge_owner[q.path]

\* C28: the cycle that leads to a fast publish, any but the first of the run,
\* spends at least the fast interval sampling before it publishes.
C28_FastCyclesArePaced ==
    [][ (pc = "fast" /\ pc' = "refresh" /\ iterations >= 2) =>
            now' - now >= FastInterval ]_vars

\* C29: after a scan that replaced the inventory, the inventory has one
\* record for every accepted device of the report, none of them under an
\* empty or null serial.
C29_OneRecordPerAcceptedDevice ==
    (JustScanned /\ last_scan.result = "changed") =>
        /\ Cardinality(DOMAIN disk_serial_mapping) = Cardinality(DOMAIN disk_path_mapping)
        /\ DOMAIN disk_serial_mapping \cap {"", NoneVal} = {}

\* The sum of the readings of the "Core n" entries.
RECURSIVE SumOfReadings(_)
SumOfReadings(cores) ==
    IF DOMAIN cores = {} THEN 0
    ELSE LET n == CHOOSE n \in DOMAIN cores : TRUE
         IN cores[n] + SumOfReadings([m \in DOMAIN cores \ {n} |-> cores[m]])

\* The chip update_cpu_temperature consults: the first one of the report
\* whose name marks it as a CPU sensor.
CpuChips ==
    IF sample.probe # "json" THEN {}
    ELSE {sample.report[i] : i \in {j \in DOMAIN sample.report :
            \/ NameHas(sample.report[j].name, "coretemp")
            \/ NameHas(sample.report[j].name, "cpu")}}

\* C30: the temperature is the package reading of the CPU chip if it has one,
\* else the average of its core readings if it has any, else (no CPU chip, a
\* CPU chip without either reading, or a failed probe) the thermal-zone
\* value divided by 1000, and 0 under the sensor "unknown" only when that
\* file is missing too.  The temp1 reading of a virtual thermal chip is left
\* aside.
C30_TemperatureFallbackChain ==
    (computed.fn = "cpu_temp" /\ \A sd \in CpuChips : sd.temp1 = {}) =>
        IF \E sd \in CpuChips : sd.package # {}
            THEN \E sd \in CpuChips : computed.value = TheOne(sd.package)
        ELSE IF \E sd \in CpuChips : sd.cores # EmptyMap
            THEN \E sd \in CpuChips :
                    computed.value = Round(SumOfReadings(sd.cores), Cardinality(DOMAIN sd.cores))
        ELSE IF sample.zone # {}
            THEN /\ computed.value = Round(TheOne(sample.zone), 100)
                 /\ computed.sensor = "thermal_zone0"
        ELSE computed.value = 0 /\ computed.sensor = "unknown"

\* C31: the root disk is the disk the root partition is on: for sda1 it is
\* sda, for a partition of a disk named sdp it is sdp, for nvme0n1p1 it is
\* nvme0n1 and for mmcblk0p1 it is mmcblk0.
C31_RootDiskIsTheParentDisk ==
    computed.fn = "root_disk" => computed.text = sample.disk

\* C32: the per-core array published with the temperature is ordered by
\* core number, is as long as the highest reported core number plus one,
\* and holds the reading of each reported core and 0.0 for each core
\* without one at its own index.
C32_CoreArrayIsIndexedByCore ==
    "cores" \in computed.attrs =>
        \A sd \in CpuChips :
            /\ \A n \in DOMAIN sd.cores : n + 1 <= Len(computed.cores)
            /\ sd.cores # EmptyMap => Len(computed.cores) - 1 \in DOMAIN sd.cores
            /\ sd.cores = EmptyMap => computed.cores = <<>>
            /\ \A i \in 1..Len(computed.cores) :
                    computed.cores[i] = IF i - 1 \in DOMAIN sd.cores
                                           THEN sd.cores[i - 1] ELSE 0

\* Cores 0 and 2 report 40.0 and 44.0, core 1 reports nothing, and the
\* array is [40.0, 0.0, 44.0].
C32_Witness ==
    /\ "cores" \in computed.attrs
    /\ \E sd \in CpuChips : DOMAIN sd.cores = {0, 2}
    /\ computed.cores = <<400, 0, 440>>

\* C33: without a package reading the temperature is the average of the
\* core readings that were reported; the zeros that fill the gaps of the
\* array do not enter it.
C33_AverageOfReportedCores ==
    "cores" \in computed.attrs =>
        \A sd \in CpuChips :
            (sd.package = {} /\ sd.cores # EmptyMap) =>
                computed.value = Round(SumOfReadings(sd.cores),
                                       Cardinality(DOMAIN sd.cores))

\* The value, in tenths, is the tenth nearest to used / total * 100.
NearestTenthOfPercent(value, used, total) ==
    LET diff == value * total - used * 1000
    IN 2 * (IF diff >= 0 THEN diff ELSE -diff) <= total

\* C34: for a complete "Mem:" line with total > 0, mem_usage is
\* used / total * 100 rounded to one decimal and the values are those of
\* the line; swap_usage is computed the same way from a complete "Swap:"
\* line; a line with too few fields gives all-zero values and 0.0.
C34_MemoryUsageFromFreeLines ==
    LET needed == IF computed.fn = "mem_usage" THEN 7 ELSE 4
        line == [total |-> sample.total, used |-> sample.used, free |-> sample.free]
    IN computed.fn \in {"mem_usage", "swap_usage"} =>
        /\ ~computed.raised
        /\ (sample.parts >= needed /\ sample.total > 0) =>
                /\ NearestTenthOfPercent(computed.value, sample.used, sample.total)
                /\ computed.data = line
        /\ sample.parts < needed =>
                /\ computed.value = 0
                /\ computed.data = [total |-> 0, used |-> 0, free |-> 0]

\* A complete "Mem:" line with half of the memory used gives 50.0.
C34_Witness ==
    /\ computed.fn = "mem_usage"
    /\ sample.parts = 7 /\ sample.total = 2 /\ sample.used = 1
    /\ computed.value = 500

\* C35: the capacity sample of a device that is not mounted (the report
\* gives no mount point for it) is produced with the mount point
\* "unmounted" and a usage of 0.0.
C35_UnmountedDeviceIsReported ==
    (computed.fn = "disk_usage" /\ sample.mountpoint \in {NoneVal, KeyMissing}) =>
        /\ ~computed.raised
        /\ computed.value = 0
        /\ computed.mount_point = "unmounted"

\* C36: a health probe is issued only for the path of a device of the
\* inventory, and whenever the inventory changes the info probe, which
\* detects and learns the bridge mode, runs in that same scan on the path of
\* every device of the new inventory; so the info probe has run on a
\* device's path before its first health probe.
C36_InfoProbePrecedesHealthProbe ==
    /\ [](\A q \in smart_log :
            q.fn = "smart" => q.path \in Range(disk_serial_mapping))
    /\ [][(disk_serial_mapping' # disk_serial_mapping /\ pc' # "crashed") =>
            \A serial \in DOMAIN disk_serial_mapping' :
                \E q \in smart_log' :
                    q.fn = "info" /\ q.path = disk_serial_mapping'[serial]]_vars

\* A disk behind a USB bridge is probed for health in the second iteration
\* without a bridge mode: the retry of its info probe had failed.
C36_Witness ==
    /\ iterations = 2
    /\ \E q \in smart_log : q.fn = "smart" /\ q.path \in usb_paths /\ q.mode = ""

\* C37: whatever the configured fast interval, the disk I/O probe, which
\* samples for that long, runs with a timeout larger than the interval, so
\* a working probe delivers its report.
C37_IostatTimeoutExceedsInterval ==
    computed.fn = "iostat" =>
        /\ computed.timeout > sample.fast_interval
        /\ computed.output = "json"

\* The health probe delivered no output, or output that is not a report.
NoSmartReport ==
    \/ sample.outcome = "timeout"
    \/ sample.stdout = "" /\ sample.stderr = ""
    \/ sample.stdout = "malformed"
    \/ sample.stdout = "" /\ sample.stderr = "malformed"

\* C38: whatever the health probe gives, get_disk_smart returns a sample
\* with a temperature; smart_passed is 1 exactly when the report says that
\* the overall status passed, else 0; on empty or invalid output the sample
\* is smart_passed = 0, temperature = 0 with an error attribute.
C38_SmartSampleIsComplete ==
    computed.fn = "disk_smart" =>
        /\ ~computed.raised
        /\ {"smart_passed", "temperature"} \subseteq computed.keys
        /\ computed.smart_passed =
                IF ~NoSmartReport /\ sample.smart.passed = {TRUE} THEN 1 ELSE 0
        /\ NoSmartReport =>
                /\ computed.smart_passed = 0
                /\ computed.value = 0
                /\ "error" \in computed.attrs

====
